---- MODULE Spec2Model ----
(***************************************************************************)
(* Authentication dependencies (app/api/deps.py) and database bootstrap    *)
(* (app/core/db.py, app/initial_data.py) of the FastAPI template.          *)
(*                                                                         *)
(* Spec      : concurrent requests running the dependency chain            *)
(*             get_db -> get_current_user -> get_current_active_superuser  *)
(*             against a user table.                                       *)
(* BootSpec  : runs of initial_data.init(), each with its own session,     *)
(*             against one database.                                       *)
(***************************************************************************)
EXTENDS Integers, Sequences, FiniteSets, TLC

\* ------------------------------------------------------------------ bounds

\* Number of requests the server handles concurrently.
NumRequests == 2

\* Number of init() runs started against the same database.
NumRuns == 2

\* User rows present before bootstrap have ids 1..MaxSeeded.
MaxSeeded == 2

Requests == 1..NumRequests

Runs == 1..NumRuns

\* ---------------------------------------------------------------- settings

\* settings.FIRST_SUPERUSER
FIRST_SUPERUSER == "admin@example.com"

\* An email other than the configured one.
OTHER_EMAIL == "alice@example.com"

\* ------------------------------------------------------------- user table

\* A row of the user table (the columns the code reads).
User(id, email, is_active, is_superuser) ==
    [id |-> id, email |-> email, is_active |-> is_active, is_superuser |-> is_superuser]

\* The table the requests run against: one user per combination of the two
\* flags, ids 1..4; every other id has no row.
FlagUsers ==
    { User(1, FIRST_SUPERUSER, TRUE, TRUE),
      User(2, OTHER_EMAIL, TRUE, FALSE),
      User(3, "bob@example.com", FALSE, TRUE),
      User(4, "carol@example.com", FALSE, FALSE) }

\* An id with no row in FlagUsers.
MissingId == Cardinality(FlagUsers) + 1

\* The subjects a token may carry.
Subjects == { u.id : u \in FlagUsers } \cup { MissingId }

\* session.get(User, id): the row with that primary key, or None.  An optional
\* row is a set of at most one row; None is {}.
\* Variant: the lookup ignores the primary key and takes the first row.
SessionGet_FirstRow(table, id) ==
    IF table = {} THEN {} ELSE { CHOOSE u \in table : \A v \in table : u.id <= v.id }

SessionGet(table, id) == { u \in table : u.id = id }

\* ------------------------------------------------------------------ tokens

\* What can be wrong with a bearer token.  "none": signed with SECRET_KEY, not
\* expired, payload accepted by TokenPayload.
Defects == { "none", "malformed", "bad_signature", "expired", "schema_mismatch" }

\* The sub of a token that carries no readable subject.
NoSub == 0

\* A token with a bad signature or past its expiry still carries a subject; a
\* malformed token or one whose payload does not fit TokenPayload carries none.
Tokens ==
    [ defect : { "none", "bad_signature", "expired" }, sub : Subjects ]
    \cup [ defect : { "malformed", "schema_mismatch" }, sub : { NoSub } ]

\* The routes: depending on CurrentUser, or on get_current_active_superuser.
Routes == { "current_user", "superuser" }

\* jwt.decode(token, SECRET_KEY, algorithms=[ALGORITHM]): the payload, or
\* InvalidTokenError (DecodeError, InvalidSignatureError, ExpiredSignatureError).
\* Variant: decoding without verifying the signature or the expiry.
JwtDecode_NoVerify(token) ==
    IF token.defect = "malformed"
    THEN [ raised |-> "InvalidTokenError", sub |-> NoSub, schema_ok |-> FALSE ]
    ELSE [ raised |-> "", sub |-> token.sub,
           schema_ok |-> token.defect # "schema_mismatch" ]

JwtDecode(token) ==
    IF token.defect \in { "malformed", "bad_signature", "expired" }
    THEN [ raised |-> "InvalidTokenError", sub |-> NoSub, schema_ok |-> FALSE ]
    ELSE [ raised |-> "", sub |-> token.sub,
           schema_ok |-> token.defect # "schema_mismatch" ]

\* TokenPayload(**payload): raises ValidationError when the payload does not fit.
TokenPayload(payload) ==
    IF payload.schema_ok
    THEN [ raised |-> "", sub |-> payload.sub ]
    ELSE [ raised |-> "ValidationError", sub |-> NoSub ]

\* --------------------------------------------------------------- responses

NoResponse == [ kind |-> "none", status_code |-> 0, detail |-> "", user |-> {} ]

HTTPException(status_code, detail) ==
    [ kind |-> "HTTPException", status_code |-> status_code, detail |-> detail,
      user |-> {} ]

\* The dependency chain passed: the route handler runs with this user.
Returned(user) ==
    [ kind |-> "return", status_code |-> 0, detail |-> "", user |-> user ]

\* ------------------------------------------------------- get_current_user

\* The except clause of get_current_user.
TokenRejected(token) ==
    LET payload == JwtDecode(token)
    IN  \/ payload.raised = "InvalidTokenError"
        \/ TokenPayload(payload).raised = "ValidationError"

\* token_data.sub of an accepted token.
TokenSub(token) == TokenPayload(JwtDecode(token)).sub

\* "if not user"
\* Variant: the existence check is left out.
UserMissing_Never(user) == FALSE

UserMissing(user) == user = {}

\* "if not user.is_active"
\* Variant: the is_active check is left out.
UserInactive_Never(user) == FALSE

\* Variant: superusers are let past the is_active check.
UserInactive_SuperuserExempt(user) ==
    \E u \in user : ~u.is_active /\ ~u.is_superuser

UserInactive(user) == \E u \in user : ~u.is_active

\* get_current_user(session, token): the steps it ran and its result (the
\* HTTPException it raised, or the user it returned).
GetCurrentUser(table, token) ==
    IF TokenRejected(token)
    THEN [ ran |-> << "decode" >>,
           result |-> HTTPException(403, "Could not validate credentials") ]
    ELSE LET user == SessionGet(table, TokenSub(token))
         IN  IF UserMissing(user)
             THEN [ ran |-> << "decode", "get", "exists" >>,
                    result |-> HTTPException(404, "User not found") ]
             ELSE IF UserInactive(user)
             THEN [ ran |-> << "decode", "get", "exists", "active" >>,
                    result |-> HTTPException(400, "Inactive user") ]
             ELSE [ ran |-> << "decode", "get", "exists", "active" >>,
                    result |-> Returned(user) ]

\* ------------------------------------------- get_current_active_superuser

\* "if not current_user.is_superuser"
\* Variant: the is_superuser check is left out.
NotSuperuser_Never(current_user) == FALSE

NotSuperuser(current_user) == \E u \in current_user : ~u.is_superuser

GetCurrentActiveSuperuser(current_user) ==
    IF NotSuperuser(current_user)
    THEN HTTPException(403, "The user doesn't have enough privileges")
    ELSE Returned(current_user)

\* ------------------------------------------------------------------ get_db

\* No session.
NoSession == 0

\* Session(engine) in get_db: every call constructs a session object of its
\* own; the object is named after the request whose call constructed it.
NewSession(r) == r

\* Leaving "with Session(engine) as session": the session is closed, whether the
\* request returned or raised.
\* Variant: a close after the yield that a raised HTTPException skips.
CloseSession_OnlyOnReturn(open, handle, resp) ==
    IF resp.kind = "return" THEN open \ { handle } ELSE open

CloseSession(open, handle, resp) == open \ { handle }

\* --------------------------------------------------------------- bootstrap

\* The tables bootstrap may find: rows with ids in 1..MaxSeeded, no two with the
\* same id or the same email, any flags.
SeededRow(email) ==
    { {} } \cup
    { { User(id, email, a, s) } : id \in 1..MaxSeeded, a \in BOOLEAN, s \in BOOLEAN }

SeededTables ==
    { t \in { f \cup o : f \in SeededRow(FIRST_SUPERUSER), o \in SeededRow(OTHER_EMAIL) } :
        \A u, v \in t : u.id = v.id => u = v }

\* session.exec(select(User).where(User.email == email)).first(): the results
\* it may give: None when no row matches, else one of the matching rows.
SelectFirstByEmail(table, email) ==
    LET matching == { u \in table : u.email = email }
    IN  IF matching = {} THEN { {} } ELSE { { u } : u \in matching }

\* "if not user" of init_db.
\* Variant: the superuser is created without looking at the select's result.
SuperuserAbsent_Always(user) == TRUE

SuperuserAbsent(user) == user = {}

\* UserCreate(email=..., password=..., is_superuser=True).  The password is
\* stored hashed and read by nothing here: it is left out of the row.
UserCreate(email, is_superuser) == [ email |-> email, is_superuser |-> is_superuser ]

\* A primary key no row has yet.
NewId(table) ==
    CHOOSE id \in 1..(Cardinality(table) + 1) :
        /\ \A u \in table : u.id # id
        /\ \A other \in 1..(id - 1) : \E u \in table : u.id = other

\* crud.create_user(session, user_create): inserts and commits one new row.
CrudCreateUser(table, user_create) ==
    table \cup { User(NewId(table), user_create.email, TRUE, user_create.is_superuser) }

\* ------------------------------------------------------------------- state

VARIABLES
    db,             \* the user table: a set of rows
    pc,             \* pc[r]: where request r is in its dependency chain
    token,          \* token[r]: the bearer token of request r
    route,          \* route[r]: the kind of route request r is for
    session,        \* session[r]: the session handle get_db gave request r
    open_sessions,  \* the session handles that are open
    current_user,   \* current_user[r]: the user get_current_user returned
    ran,            \* ran[r]: the steps of the chain request r has run
    response,       \* response[r]: the outcome of the chain
    run_pc,         \* run_pc[i]: where run i of init() is
    run_user,       \* run_user[i]: the result of the select of run i
    created,        \* created[i]: the rows run i created
    began_after,    \* began_after[i]: the runs that had ended when run i began
    seen_created    \* seen_created[i]: the runs that had created a row when run i selected

vars ==
    << db, pc, token, route, session, open_sessions, current_user, ran, response,
       run_pc, run_user, created, began_after, seen_created >>

reqVars ==
    << pc, token, route, session, open_sessions, current_user, ran, response >>

bootVars == << run_pc, run_user, created, began_after, seen_created >>

NoToken == [ defect |-> "none", sub |-> NoSub ]

RequestsIdle ==
    /\ pc = [ r \in Requests |-> "idle" ]
    /\ token = [ r \in Requests |-> NoToken ]
    /\ route = [ r \in Requests |-> "current_user" ]
    /\ session = [ r \in Requests |-> NoSession ]
    /\ open_sessions = {}
    /\ current_user = [ r \in Requests |-> {} ]
    /\ ran = [ r \in Requests |-> << >> ]
    /\ response = [ r \in Requests |-> NoResponse ]

RunsNotStarted ==
    /\ run_pc = [ i \in Runs |-> "start" ]
    /\ run_user = [ i \in Runs |-> {} ]
    /\ created = [ i \in Runs |-> {} ]
    /\ began_after = [ i \in Runs |-> {} ]
    /\ seen_created = [ i \in Runs |-> {} ]

Init ==
    /\ db = FlagUsers
    /\ RequestsIdle
    /\ RunsNotStarted

\* ---------------------------------------------------------------- requests

\* A request with a bearer token arrives; FastAPI resolves get_db first: the
\* request gets a session of its own.
StartRequest(r) ==
    /\ pc[r] = "idle"
    /\ \E t \in Tokens, k \in Routes :
        /\ token' = [ token EXCEPT ![r] = t ]
        /\ route' = [ route EXCEPT ![r] = k ]
    /\ LET s == NewSession(r)
       IN  /\ session' = [ session EXCEPT ![r] = s ]
           /\ open_sessions' = open_sessions \cup { s }
    /\ pc' = [ pc EXCEPT ![r] = "get_current_user" ]
    /\ UNCHANGED << db, current_user, ran, response, bootVars >>

\* get_current_user runs.  A raised HTTPException ends the chain; a returned
\* user goes to the route handler, or to get_current_active_superuser first.
ResolveUser(r) ==
    /\ pc[r] = "get_current_user"
    /\ LET res == GetCurrentUser(db, token[r])
       IN  /\ ran' = [ ran EXCEPT ![r] = res.ran ]
           /\ current_user' = [ current_user EXCEPT ![r] = res.result.user ]
           /\ IF res.result.kind = "return" /\ route[r] = "superuser"
              THEN /\ pc' = [ pc EXCEPT ![r] = "get_current_active_superuser" ]
                   /\ UNCHANGED response
              ELSE /\ pc' = [ pc EXCEPT ![r] = "exit" ]
                   /\ response' = [ response EXCEPT ![r] = res.result ]
    /\ UNCHANGED << db, token, route, session, open_sessions, bootVars >>

\* get_current_active_superuser runs on the user get_current_user returned.
SuperuserGate(r) ==
    /\ pc[r] = "get_current_active_superuser"
    /\ ran' = [ ran EXCEPT ![r] = Append(@, "superuser") ]
    /\ response' = [ response EXCEPT ![r] = GetCurrentActiveSuperuser(current_user[r]) ]
    /\ pc' = [ pc EXCEPT ![r] = "exit" ]
    /\ UNCHANGED << db, token, route, session, open_sessions, current_user, bootVars >>

\* The request ends: get_db's with-block is left and the request is gone.
Teardown(r) ==
    /\ pc[r] = "exit"
    /\ open_sessions' = CloseSession(open_sessions, session[r], response[r])
    /\ pc' = [ pc EXCEPT ![r] = "idle" ]
    /\ token' = [ token EXCEPT ![r] = NoToken ]
    /\ route' = [ route EXCEPT ![r] = "current_user" ]
    /\ session' = [ session EXCEPT ![r] = NoSession ]
    /\ current_user' = [ current_user EXCEPT ![r] = {} ]
    /\ ran' = [ ran EXCEPT ![r] = << >> ]
    /\ response' = [ response EXCEPT ![r] = NoResponse ]
    /\ UNCHANGED << db, bootVars >>

RequestStep(r) ==
    \/ StartRequest(r)
    \/ ResolveUser(r)
    \/ SuperuserGate(r)
    \/ Teardown(r)

Next == \E r \in Requests : RequestStep(r)

Spec == Init /\ [][Next]_vars

\* The server runs every request it has accepted through to its end.
FairSpec == Spec /\ \A r \in Requests : WF_vars(ResolveUser(r) \/ SuperuserGate(r) \/ Teardown(r))

\* ------------------------------------------------- properties: requests

CredentialsError == HTTPException(403, "Could not validate credentials")

NotFoundError == HTTPException(404, "User not found")

InactiveError == HTTPException(400, "Inactive user")

PrivilegeError == HTTPException(403, "The user doesn't have enough privileges")

\* The chain of request r has ended with a response.
AtExit(r) == pc[r] = "exit"

\* get_current_user has run for request r.
Resolved(r) == pc[r] \in { "get_current_active_superuser", "exit" }

ValidToken(r) == token[r].defect = "none"

\* The rows whose primary key is the subject of request r's token.
SubjectRows(r) == { u \in db : u.id = token[r].sub }

IsCheck(step) == step # "get"

\* The checks request r ran, in order (the lookup itself left out).
ChecksRan(r) == SelectSeq(ran[r], IsCheck)

Steps(r) == { ran[r][k] : k \in 1..Len(ran[r]) }

CheckOrder == << "decode", "exists", "active", "superuser" >>

CheckError == << CredentialsError, NotFoundError, InactiveError, PrivilegeError >>

\* The first check of CheckOrder that request r fails (0: none).
FirstFailure(r) ==
    IF ~ValidToken(r) THEN 1
    ELSE IF SubjectRows(r) = {} THEN 2
    ELSE IF \E u \in SubjectRows(r) : ~u.is_active THEN 3
    ELSE IF \E u \in SubjectRows(r) : ~u.is_superuser THEN 4
    ELSE 0

\* C1: a request to a superuser-only route runs the checks in the order decode,
\* exists, active, superuser, stops at the first one that fails, and ends with
\* that check's error (403 credentials, 404, 400, 403 privileges); it returns
\* the user when none fails.
C1_SuperuserRoutePipeline ==
    \A r \in Requests :
        (route[r] = "superuser" /\ AtExit(r)) =>
            LET f == FirstFailure(r)
                n == IF f = 0 THEN Len(CheckOrder) ELSE f
            IN  /\ ChecksRan(r) = SubSeq(CheckOrder, 1, n)
                /\ f # 0 => response[r] = CheckError[f]
                /\ f = 0 => response[r].kind = "return"

\* An inactive non-superuser asked for a superuser-only route and got 400.
C1_Witness ==
    \E r \in Requests :
        /\ route[r] = "superuser" /\ AtExit(r) /\ ValidToken(r)
        /\ \E u \in SubjectRows(r) : ~u.is_active /\ ~u.is_superuser
        /\ response[r] = InactiveError

\* C2: a request whose token fails validation (malformed, bad signature,
\* expired, payload schema mismatch) ends with 403 "Could not validate
\* credentials" and never runs session.get.
C2_InvalidTokenNoLookup ==
    \A r \in Requests :
        (pc[r] \notin { "idle", "get_current_user" } /\ ~ValidToken(r)) =>
            /\ AtExit(r)
            /\ response[r] = CredentialsError
            /\ "get" \notin Steps(r)

\* A request with an expired token, and one with a bad signature, were refused.
C2_Witness ==
    /\ \E r \in Requests : AtExit(r) /\ token[r].defect = "expired"
    /\ \E r \in Requests : AtExit(r) /\ token[r].defect = "bad_signature"

\* C3 as claimed: whenever the token's subject has no user row, the outcome is
\* 404 "User not found", whether or not the token is valid.
C3_NotFoundRegardlessOfToken ==
    \A r \in Requests :
        (AtExit(r) /\ token[r].sub \in Subjects /\ SubjectRows(r) = {}) =>
            response[r] = NotFoundError

\* C3 amended: whenever the token is valid and its subject has no user row, the
\* outcome is 404 "User not found".
C3_NotFoundForValidToken ==
    \A r \in Requests :
        (AtExit(r) /\ ValidToken(r) /\ SubjectRows(r) = {}) =>
            response[r] = NotFoundError

\* A valid token for a missing user got 404.
C3_Witness ==
    \E r \in Requests :
        /\ AtExit(r) /\ ValidToken(r) /\ SubjectRows(r) = {}
        /\ response[r] = NotFoundError

\* C4: a valid token whose subject is an existing inactive user gets 400
\* "Inactive user", superuser or not; get_current_user never returns an
\* inactive user.
C4_InactiveRefused ==
    \A r \in Requests :
        /\ (AtExit(r) /\ ValidToken(r) /\ \E u \in SubjectRows(r) : ~u.is_active) =>
               response[r] = InactiveError
        /\ \A u \in current_user[r] : u.is_active

\* An inactive superuser was refused with 400.
C4_Witness ==
    \E r \in Requests :
        /\ AtExit(r) /\ ValidToken(r)
        /\ \E u \in SubjectRows(r) : ~u.is_active /\ u.is_superuser
        /\ response[r] = InactiveError

\* C5: get_current_active_superuser, run on the user get_current_user
\* returned, returns that same user iff the user is a superuser and raises 403
\* "The user doesn't have enough privileges" otherwise; a user it returns is
\* active and superuser.
C5_SuperuserGate ==
    \A r \in Requests :
        (AtExit(r) /\ "superuser" \in Steps(r)) =>
            /\ response[r].kind = "return" <=> \A u \in current_user[r] : u.is_superuser
            /\ response[r].kind # "return" => response[r] = PrivilegeError
            /\ response[r].kind = "return" =>
                   /\ response[r].user = current_user[r]
                   /\ response[r].user # {}
                   /\ \A u \in response[r].user : u.is_active /\ u.is_superuser

\* The gate let one request through and refused another.
C5_Witness ==
    /\ \E r \in Requests :
           AtExit(r) /\ "superuser" \in Steps(r) /\ response[r].kind = "return"
    /\ \E r \in Requests :
           AtExit(r) /\ "superuser" \in Steps(r) /\ response[r] = PrivilegeError

\* C6: for a valid token whose subject is an active non-superuser,
\* get_current_user returns exactly the user whose id is the token's sub; a
\* route that needs no privilege proceeds with that user.
C6_ActiveUserReturned ==
    \A r \in Requests :
        LET rows == { u \in SubjectRows(r) : u.is_active /\ ~u.is_superuser }
        IN  (Resolved(r) /\ ValidToken(r) /\ rows # {}) =>
                /\ current_user[r] = rows
                /\ Cardinality(current_user[r]) = 1
                /\ \A u \in current_user[r] : u.id = token[r].sub
                /\ route[r] = "current_user" => response[r] = Returned(rows)

\* An active non-superuser reached a route that needs no privilege.
C6_Witness ==
    \E r \in Requests :
        /\ AtExit(r) /\ ValidToken(r) /\ route[r] = "current_user"
        /\ \E u \in SubjectRows(r) : u.is_active /\ ~u.is_superuser
        /\ response[r].kind = "return"

\* C9: a request in its chain holds one open session of its own, no two
\* requests hold the same one, a request that has not ended can always take its
\* next step (through to the release), and no session is open that no request
\* in progress holds.
C9_SessionPerRequest ==
    /\ \A r \in Requests :
           /\ pc[r] # "idle" => session[r] # NoSession /\ session[r] \in open_sessions
           /\ pc[r] = "idle" => session[r] = NoSession
           /\ pc[r] # "idle" => ENABLED RequestStep(r)
    /\ \A r1, r2 \in Requests :
           (r1 # r2 /\ pc[r1] # "idle" /\ pc[r2] # "idle") => session[r1] # session[r2]
    /\ open_sessions = { session[r] : r \in { q \in Requests : pc[q] # "idle" } }

\* Under FairSpec: the session a request holds is eventually released.
SessionEventuallyReleased ==
    \A h \in Requests : (h \in open_sessions) ~> (h \notin open_sessions)

\* All requests are in progress at once, each with its session open; one is
\* about to end with an error, another with the user returned.
C9_Witness ==
    /\ \A r \in Requests : pc[r] # "idle"
    /\ \E r \in Requests : AtExit(r) /\ response[r].kind = "HTTPException"
    /\ \E r \in Requests : AtExit(r) /\ response[r].kind = "return"

\* --------------------------------------------------------------- init_db

BootInit ==
    /\ db \in SeededTables
    /\ RequestsIdle
    /\ RunsNotStarted

\* init() opens its session and calls init_db, which first makes sure the tables
\* exist (SQLModel.metadata.create_all).
BeginInit(i) ==
    /\ run_pc[i] = "start"
    /\ run_pc' = [ run_pc EXCEPT ![i] = "select" ]
    /\ began_after' = [ began_after EXCEPT ![i] = { j \in Runs : run_pc[j] = "done" } ]
    /\ UNCHANGED << db, reqVars, run_user, created, seen_created >>

\* user = session.exec(select(User).where(User.email == FIRST_SUPERUSER)).first()
SelectSuperuser(i) ==
    /\ run_pc[i] = "select"
    /\ \E user \in SelectFirstByEmail(db, FIRST_SUPERUSER) :
        /\ run_user' = [ run_user EXCEPT ![i] = user ]
        /\ run_pc' = [ run_pc EXCEPT ![i] =
                         IF SuperuserAbsent(user) THEN "create" ELSE "return" ]
    /\ seen_created' = [ seen_created EXCEPT ![i] = { j \in Runs : created[j] # {} } ]
    /\ UNCHANGED << db, reqVars, created, began_after >>

\* user = crud.create_user(session=session, user_create=user_in)
CreateSuperuser(i) ==
    /\ run_pc[i] = "create"
    /\ db' = CrudCreateUser(db, UserCreate(FIRST_SUPERUSER, TRUE))
    /\ created' = [ created EXCEPT ![i] = db' \ db ]
    /\ run_user' = [ run_user EXCEPT ![i] = db' \ db ]
    /\ run_pc' = [ run_pc EXCEPT ![i] = "return" ]
    /\ UNCHANGED << reqVars, began_after, seen_created >>

\* init_db returns and init() leaves its with-block.
EndInit(i) ==
    /\ run_pc[i] = "return"
    /\ run_pc' = [ run_pc EXCEPT ![i] = "done" ]
    /\ UNCHANGED << db, reqVars, run_user, created, began_after, seen_created >>

RunStep(i) ==
    \/ BeginInit(i)
    \/ SelectSuperuser(i)
    \/ CreateSuperuser(i)
    \/ EndInit(i)

BootNext == \E i \in Runs : RunStep(i)

BootSpec == BootInit /\ [][BootNext]_vars

\* ------------------------------------------------ properties: bootstrap

\* The rows for the configured email.
FirstSuperuserRows == { u \in db : u.email = FIRST_SUPERUSER }

Creators == { i \in Runs : created[i] # {} }

\* No two runs that have begun were in progress at once.
Sequential ==
    \A i, j \in Runs :
        (i # j /\ run_pc[i] # "start" /\ run_pc[j] # "start") =>
            (i \in began_after[j] \/ j \in began_after[i])

\* C7 as claimed: after two runs in sequence there is exactly one superuser row
\* for the configured email, and the second run created no user.
C7_TwoRunsOneSuperuserRow ==
    \A i, j \in Runs :
        (Sequential /\ j \in began_after[i] /\ run_pc[i] = "done") =>
            /\ Cardinality({ u \in FirstSuperuserRows : u.is_superuser }) = 1
            /\ created[i] = {}

\* The part of C7 that does not depend on the flags of the row found: after two
\* runs in sequence there is exactly one row for the configured email, and the
\* second run created no user.
C7_TwoRunsOneRow ==
    \A i, j \in Runs :
        (Sequential /\ j \in began_after[i] /\ run_pc[i] = "done") =>
            /\ Cardinality(FirstSuperuserRows) = 1
            /\ created[i] = {}

\* C8 as claimed: once a run of init_db has completed, some row has the
\* configured email and is_superuser true.
C8_SuperuserPresent ==
    \A i \in Runs :
        run_pc[i] = "done" => \E u \in FirstSuperuserRows : u.is_superuser

\* C10 as claimed: however the runs interleave, at most one of them creates a
\* user and there are never two rows for the configured email.
C10_AtMostOneCreated ==
    /\ Cardinality(Creators) <= 1
    /\ Cardinality(FirstSuperuserRows) <= 1

\* C10 amended: a run creates a user only if no row for the configured email
\* was committed before its select (none seeded, none created by another run),
\* and a run that begins after another has ended creates nothing if an earlier
\* run created; runs that do not overlap create at most one user in total.
C10_CreateOnlyIfAbsentAtSelect ==
    /\ \A i \in Creators :
           /\ seen_created[i] = {}
           /\ Cardinality(created[i]) = 1
           /\ \A u \in FirstSuperuserRows : \E j \in Creators : u \in created[j]
    /\ \A i, j \in Runs : (j \in began_after[i] /\ j \in Creators) => i \notin Creators
    /\ Sequential => Cardinality(Creators) <= 1
    /\ Cardinality(FirstSuperuserRows) <= Cardinality(Runs)

\* Two interleaved runs have each created a row for the configured email.
C10_Witness ==
    /\ Cardinality(Creators) = 2
    /\ Cardinality(FirstSuperuserRows) = 2
    /\ \A i \in Creators : run_pc[i] = "done"

====
